---- MODULE Spec2Model ----
(***************************************************************************)
(* State-machine model of the Xilinx hwcomposer backend                     *)
(* (src/hwcomposer.cpp): device open, hwc_prepare (plan), hwc_set           *)
(* (execute) and bitblitLayer (blit) with its accelerator request and its   *)
(* software copy loop.                                                      *)
(*                                                                          *)
(* Layers keep the C indices 0 .. numHwLayers-1.  A layer's handle is 0     *)
(* (NULL) or the identifier of its own private_handle_t; layer k owns       *)
(* handle k+1, so the base buffer and the source buffers are distinct       *)
(* allocations.  Pixels are 4 bytes wide (unsigned long on the 32-bit       *)
(* target), size_t and int are 32 bits wide.                                *)
(***************************************************************************)
EXTENDS Integers, Sequences, FiniteSets, TLC

VARIABLES
    pc,        \* position of the single calling thread
    ctx,       \* hwc_context_t: [opened, bb_fd] and the procs of its device
    status,    \* return value of the last call that returned
    list,      \* hwc_layer_list_t: [flags, numHwLayers, hwLayers]
    handles,   \* private_handle_t by identifier: [stride, size, fd]
    mem,       \* pixel contents of each handle's buffer ("base")
    li,        \* hwc_set's loop index i
    bi,        \* bitblitLayer's column index i
    bj,        \* bitblitLayer's row index j
    call,      \* the entry point entered last ("client": the caller changed the list since)
    log,       \* calls, diagnostics and memory accesses since then, in order
    requests   \* accelerator requests (xylonbb_params) issued since then

vars == <<pc, ctx, status, list, handles, mem, li, bi, bj, call, log, requests>>

-----------------------------------------------------------------------------
(* Program constants *)

HWC_FRAMEBUFFER == 0
HWC_OVERLAY == 1
HWC_GEOMETRY_CHANGED == 1
HWC_EGL_ERROR == -1
EINVAL == 22

\* bytes per pixel: sizeof(unsigned long) on the 32-bit target, the literal 4
\* of the offset computations
PixelBytes == 4

-----------------------------------------------------------------------------
(* Bounds of the model *)

MaxLayers == 3      \* longest layer list
MaxExtent == 2      \* largest column / row count of a source crop
MaxPixels == 9      \* largest buffer capacity, in pixels

\* a coordinate large enough that the byte offset 4*x wraps to 0 in 32 bits
Wrap == 2^30

-----------------------------------------------------------------------------
(* 32-bit arithmetic of the offset computations *)

\* (4 * x) mod 2^32 > size, compared as unsigned 32-bit values, for a declared
\* size >= 0.  4*(x mod 2^30) is (4*x) mod 2^32, and 4*m > size exactly when
\* m > size \div 4 (integer m), which keeps every intermediate value in range.
OffsetAbove(x, size) == (x % Wrap) > (size \div PixelBytes)

\* (4 * x) mod 2^32 as a signed 32-bit value
Offset32(x) ==
    LET m == x % Wrap
    IN  IF m < Wrap \div 2 THEN PixelBytes * m ELSE PixelBytes * (m - Wrap)

\* pixel index x lies inside the declared capacity of buffer h: 0 <= x and
\* 4*x < size
InBuffer(h, x) == 0 <= x /\ x <= (h.size - 1) \div PixelBytes

-----------------------------------------------------------------------------
(* Data model: hwc_rect_t, hwc_layer_t, private_handle_t *)

Rect(l, t, r, b) == [left |-> l, top |-> t, right |-> r, bottom |-> b]

Layer(type, h, sc, df) ==
    [compositionType |-> type, hints |-> 0, flags |-> 0, handle |-> h,
     transform |-> 0, blending |-> 0, sourceCrop |-> sc, displayFrame |-> df]

Handle(stride, size, fd) == [stride |-> stride, size |-> size, fd |-> fd]

\* the handle identifier owned by layer k
HandleOf(k) == k + 1

\* the dma-buf descriptor of handle h
FdOf(h) == 10 + h

\* initial pixel k of handle h's buffer: the base buffer (handle 1) starts
\* unfilled (0), every source pixel has a value of its own
InitPixel(h, k) == IF h = 1 THEN 0 ELSE 16 * h + k

InitMem(hs) ==
    [h \in DOMAIN hs |->
        [k \in 0 .. (hs[h].size \div PixelBytes) - 1 |-> InitPixel(h, k)]]

\* what a read outside every mapped buffer may return
Garbage == {0, 255}

Ev(op, layer, idx, val) == [op |-> op, layer |-> layer, idx |-> idx, val |-> val]

-----------------------------------------------------------------------------
(* bitblitLayer's address algebra *)

Columns(l) == l.sourceCrop.right - l.sourceCrop.left
Rows(l) == l.sourceCrop.bottom - l.sourceCrop.top

\* mutant: the base layer's crop origin is left out of the destination index
DestIndex_noBaseCrop(l0, l, sh, i, j) ==
    l.displayFrame.left + i + (j + l.displayFrame.top) * sh.stride

\* displayLeft + surfaceLeft + i + (j+displayTop+surfaceTop)*surfaceStride
DestIndex(l0, l, sh, i, j) ==
    l.displayFrame.left + l0.sourceCrop.left + i
        + (j + l.displayFrame.top + l0.sourceCrop.top) * sh.stride

\* layerLeft + i + (j+layerTop)*layerStride
SrcIndex(l, lh, i, j) ==
    l.sourceCrop.left + i + (j + l.sourceCrop.top) * lh.stride

\* the bounds tests of the software loop, as the code writes them
BaseRefOutOfBounds(l0, l, sh, i, j) ==
    OffsetAbove(DestIndex(l0, l, sh, i, j), sh.size)

\* mutant: the source offset is not tested
LayerRefOutOfBounds_unchecked(l, lh, i, j) == FALSE

LayerRefOutOfBounds(l, lh, i, j) ==
    OffsetAbove(SrcIndex(l, lh, i, j), lh.size)

\* mutant: the source offset is tested before the destination offset
BoundsDiagnostic_sourceFirst(l0, l, sh, lh, i, j) ==
    IF LayerRefOutOfBounds(l, lh, i, j) THEN "layer ref out of bounds"
    ELSE IF BaseRefOutOfBounds(l0, l, sh, i, j) THEN "base ref out of bounds"
    ELSE "none"

\* the diagnostic with which the loop body returns at pixel (i, j), "none"
\* when both tests pass: the destination test comes first
BoundsDiagnostic(l0, l, sh, lh, i, j) ==
    IF BaseRefOutOfBounds(l0, l, sh, i, j) THEN "base ref out of bounds"
    ELSE IF LayerRefOutOfBounds(l, lh, i, j) THEN "layer ref out of bounds"
    ELSE "none"

\* mutant: the source offset is computed with the base buffer's stride
BitblitParams_baseStride(l0, l, sh, lh) ==
    [dst_dma_buf |-> sh.fd,
     dst_offset |-> Offset32(l.displayFrame.left + l0.sourceCrop.left
                     + (l.displayFrame.top + l0.sourceCrop.top) * sh.stride),
     dst_stripe |-> sh.stride,
     src_dma_buf |-> lh.fd,
     src_offset |-> Offset32(l.sourceCrop.left + l.sourceCrop.top * sh.stride),
     src_stripe |-> lh.stride,
     num_columns |-> Columns(l),
     num_rows |-> Rows(l)]

\* what a write outside the base buffer may do to the buffers of the list:
\* leave them alone, or hit the source buffer h mapped behind the base buffer
StrayWrite(m, h, v) == {m, [m EXCEPT ![h][0] = v]}

\* the xylonbb_params record of one accelerator request
BitblitParams(l0, l, sh, lh) ==
    [dst_dma_buf |-> sh.fd,
     dst_offset |-> Offset32(l.displayFrame.left + l0.sourceCrop.left
                     + (l.displayFrame.top + l0.sourceCrop.top) * sh.stride),
     dst_stripe |-> sh.stride,
     src_dma_buf |-> lh.fd,
     src_offset |-> Offset32(l.sourceCrop.left + l.sourceCrop.top * lh.stride),
     src_stripe |-> lh.stride,
     num_columns |-> Columns(l),
     num_rows |-> Rows(l)]

\* what ioctl(bb_fd, XYLONBB_IOC_BITBLIT) may return: a valid descriptor lets
\* the driver succeed or fail, an invalid one (open returned -1) always fails
IoctlResults(fd) == IF fd > 0 THEN {0, -1} ELSE {-1}

-----------------------------------------------------------------------------
(* Inputs: the layer lists and buffers a caller may hand to the device *)

\* a non-base layer and its buffer: [layer, handle]; the display frame is
\* dw wider and dh taller than the source crop
SourceShape(k, h, left, top, cols, rows, dleft, dtop, dw, dh, stride, pixels) ==
    [layer |-> Layer(HWC_FRAMEBUFFER, h,
                     Rect(left, top, left + cols, top + rows),
                     Rect(dleft, dtop, dleft + cols + dw, dtop + rows + dh)),
     handle |-> Handle(stride, PixelBytes * pixels, FdOf(HandleOf(k)))]

BaseShape(h, left, top, stride, pixels) ==
    [layer |-> Layer(HWC_FRAMEBUFFER, h,
                     Rect(left, top, left + MaxExtent, top + MaxExtent),
                     Rect(left, top, left + MaxExtent, top + MaxExtent)),
     handle |-> Handle(stride, PixelBytes * pixels, FdOf(HandleOf(0)))]

\* full geometry, explored on two-layer lists
WideBases ==
    { BaseShape(h, c[1], c[2], stride, MaxPixels) :
        h \in {0, HandleOf(0)}, c \in {<<0, 0>>, <<1, 0>>, <<0, 1>>},
        stride \in {2, 3} }

WideSources ==
    { SourceShape(1, h, left, top, cols, rows, dleft, dtop, 0, 0, stride, pixels) :
        h \in {HandleOf(1)}, left \in {0, 1}, top \in {0, 1},
        cols \in {-1} \cup (1 .. MaxExtent), rows \in 0 .. MaxExtent,
        dleft \in {-1, 0, Wrap}, dtop \in {0, 1},
        stride \in {2, 3}, pixels \in {MaxPixels - 5, MaxPixels} }

\* a few shapes per layer, explored on lists of every length: a layer without
\* handle, one whose region fits both buffers and, for layer 1, one whose
\* second pixel leaves the source buffer, one whose second pixel leaves the
\* base buffer, one whose second pixel starts exactly at the end of the base
\* buffer, and one whose display frame is larger than its source crop
NarrowBases ==
    { BaseShape(h, 0, 0, 3, MaxPixels) : h \in {0, HandleOf(0)} }

NarrowSources(k) ==
    { SourceShape(k, 0, 0, 0, 1, 1, 0, 0, 0, 0, 2, MaxPixels),
      SourceShape(k, HandleOf(k), 0, 0, 1, 2, k - 1, 0, 0, 0, 2, MaxPixels) }
    \cup (IF k > 1 THEN {} ELSE
    { SourceShape(k, HandleOf(k), 1, 2, 1, 2, 0, 0, 0, 0, 3, MaxPixels),
      SourceShape(k, HandleOf(k), 0, 0, 1, 2, 1, MaxPixels \div 3 - 1, 0, 0, 2, MaxPixels),
      SourceShape(k, HandleOf(k), 0, 0, 1, 2, 0, MaxPixels \div 3 - 1, 0, 0, 2, MaxPixels),
      SourceShape(k, HandleOf(k), 0, 0, 1, 1, 0, 0, 1, 0, 2, MaxPixels) })

ListOf(flags, shapes) ==
    [flags |-> flags,
     numHwLayers |-> Len(shapes),
     hwLayers |-> [k \in 0 .. Len(shapes) - 1 |-> shapes[k + 1].layer]]

HandlesOf(shapes) ==
    [h \in 1 .. Len(shapes) |-> shapes[h].handle]

\* display frames narrower, equal and wider, lower, equal and taller than the
\* source crop, for layers with and without handle: the inputs of the scan of
\* hwc_prepare
PlanShapes(k) ==
    { SourceShape(k, h, 0, 0, 1, 1, 0, 0, dw, dh, 2, MaxPixels) :
        h \in {0, HandleOf(k)}, dw \in {-1, 0, 1}, dh \in {-1, 0, 1} }

\* every list of n layers over the narrow shapes
RECURSIVE NarrowLists(_)
NarrowLists(n) ==
    IF n = 0 THEN {<< >>}
    ELSE IF n = 1 THEN { <<b>> : b \in NarrowBases }
    ELSE { Append(p, s) : p \in NarrowLists(n - 1), s \in NarrowSources(n - 1) }

-----------------------------------------------------------------------------
(* hwc_device_open / hwc_device_close *)

HWC_HARDWARE_COMPOSER == "composer"

DeviceNames == {HWC_HARDWARE_COMPOSER, "gralloc"}

\* mutant: the result of strcmp is tested without the negation
NameMatches_inverted(name) == name # HWC_HARDWARE_COMPOSER

\* the test "!strcmp(name, HWC_HARDWARE_COMPOSER)"
NameMatches(name) == name = HWC_HARDWARE_COMPOSER

\* what open("/dev/xylonbb", O_RDWR) may return
OpenResults == {-1, 0, 3}

\* bb_fd after open: memset leaves 0, and "if (fd) dev->bb_fd = fd"
BbFdAfterOpen(fd) == IF fd # 0 THEN fd ELSE 0

\* the device handed back through *device: the procs set by hwc_device_open
\* and the private state after open("/dev/xylonbb") returned fd
Device(fd) ==
    [opened |-> TRUE, bb_fd |-> BbFdAfterOpen(fd),
     close |-> "hwc_device_close", prepare |-> "hwc_prepare", set |-> "hwc_set"]

\* no device: *device is left as the caller passed it
Closed ==
    [opened |-> FALSE, bb_fd |-> 0,
     close |-> "NULL", prepare |-> "NULL", set |-> "NULL"]

\* the call with its name argument, the result of open("/dev/xylonbb") and
\* the error logged for "fd <= 0"
OpenEvents(name, fd) ==
    <<[op |-> "hwc_device_open", layer |-> 0, idx |-> 0, val |-> 0, name |-> name]>>
    \o (IF NameMatches(name) THEN <<Ev("open", 0, 0, fd)>> ELSE << >>)
    \o (IF NameMatches(name) /\ fd <= 0
        THEN <<Ev("failed to open /dev/xylonbb", 0, 0, fd)>> ELSE << >>)

hwc_device_open ==
    /\ pc = "closed"
    /\ \E name \in DeviceNames, fd \in OpenResults :
        /\ IF NameMatches(name)
           THEN /\ ctx' = Device(fd)
                /\ status' = 0
                /\ pc' = "idle"
           ELSE /\ status' = -EINVAL
                /\ UNCHANGED <<ctx, pc>>
        /\ log' = OpenEvents(name, fd)
    /\ call' = "hwc_device_open"
    /\ requests' = << >>
    /\ UNCHANGED <<list, handles, mem, li, bi, bj>>

hwc_device_close ==
    /\ pc = "idle"
    /\ ctx.close = "hwc_device_close"
    /\ ctx' = Closed
    /\ status' = 0
    /\ pc' = "closed"
    /\ call' = "hwc_device_close"
    /\ log' = << >>
    /\ requests' = << >>
    /\ UNCHANGED <<list, handles, mem, li, bi, bj>>

-----------------------------------------------------------------------------
(* The caller, between calls: it owns the list *)

ClientSetFlags ==
    /\ pc = "idle"
    /\ \E f \in {0, HWC_GEOMETRY_CHANGED} :
        /\ f # list.flags
        /\ list' = [list EXCEPT !.flags = f]
    /\ call' = "client"
    /\ log' = << >>
    /\ requests' = << >>
    /\ UNCHANGED <<pc, ctx, status, handles, mem, li, bi, bj>>

ClientSetType ==
    /\ pc = "idle"
    /\ \E k \in DOMAIN list.hwLayers, t \in {HWC_FRAMEBUFFER, HWC_OVERLAY} :
        /\ t # list.hwLayers[k].compositionType
        /\ list' = [list EXCEPT !.hwLayers[k].compositionType = t]
    /\ call' = "client"
    /\ log' = << >>
    /\ requests' = << >>
    /\ UNCHANGED <<pc, ctx, status, handles, mem, li, bi, bj>>

-----------------------------------------------------------------------------
(* hwc_prepare *)

GeometryChanged(lst) == (lst.flags \div HWC_GEOMETRY_CHANGED) % 2 = 1

\* mutant: only the widths are compared
NeedsScaling_widthOnly(l) ==
    (l.displayFrame.right - l.displayFrame.left)
        # (l.sourceCrop.right - l.sourceCrop.left)

\* the test guarding "needs scaling", as the code writes it
NeedsScaling(l) ==
    \/ (l.displayFrame.right - l.displayFrame.left)
         # (l.sourceCrop.right - l.sourceCrop.left)
    \/ (l.displayFrame.top - l.displayFrame.bottom)
         # (l.sourceCrop.top - l.sourceCrop.bottom)

\* mutant: the geometry-changed flag is not tested
PrepareScans_ignoresFlag(lst) == lst.numHwLayers > 1

\* whether hwc_prepare scans the layers
PrepareScans(lst) == lst.numHwLayers > 1 /\ GeometryChanged(lst)

\* mutant: the base layer is claimed too
PrepareLayer_all(i, l) == [l EXCEPT !.compositionType = HWC_OVERLAY]

\* mutant: the loop body also sets a hint on the layers it claims
PrepareLayer_setsHints(i, l) ==
    IF i > 0 THEN [l EXCEPT !.compositionType = HWC_OVERLAY, !.hints = 1] ELSE l

\* layer i after the loop body of hwc_prepare
PrepareLayer(i, l) ==
    IF i > 0 THEN [l EXCEPT !.compositionType = HWC_OVERLAY] ELSE l

PrepareList(lst) ==
    IF PrepareScans(lst)
    THEN [lst EXCEPT !.hwLayers =
            [i \in DOMAIN lst.hwLayers |-> PrepareLayer(i, lst.hwLayers[i])]]
    ELSE lst

\* the diagnostics and validations of the loop body, layers i .. numHwLayers-1
RECURSIVE PrepareEvents(_, _)
PrepareEvents(lst, i) ==
    IF i >= lst.numHwLayers THEN << >>
    ELSE LET l == lst.hwLayers[i]
         IN  <<Ev("dump", i, 0, l.compositionType)>>
             \o (IF NeedsScaling(l) THEN <<Ev("needs scaling", i, 0, 0)>> ELSE << >>)
             \o (IF l.handle # 0 THEN <<Ev("validate", i, 0, l.handle)>> ELSE << >>)
             \o PrepareEvents(lst, i + 1)

hwc_prepare ==
    /\ pc = "idle"
    /\ ctx.prepare = "hwc_prepare"
    /\ list' = PrepareList(list)
    /\ call' = "hwc_prepare"
    /\ log' = IF PrepareScans(list) THEN PrepareEvents(list, 0) ELSE << >>
    /\ requests' = << >>
    /\ status' = 0
    /\ UNCHANGED <<pc, ctx, handles, mem, li, bi, bj>>

\* hwc_prepare(dev, NULL): line 81 reads list->numHwLayers through the null
\* pointer before line 83 tests "list"; the read faults, or it yields some
\* value and the call returns 0 (by the test of line 81 or that of line 83)
NullListOutcomes == {"crashed", "idle"}

\* the events of that call
NullListEvents(outcome) ==
    <<Ev("read list->numHwLayers", 0, 0, 0)>>
        \o (IF outcome = "crashed" THEN <<Ev("fault", 0, 0, 0)>> ELSE << >>)

hwc_prepare_null ==
    /\ pc = "idle"
    /\ ctx.prepare = "hwc_prepare"
    /\ \E outcome \in NullListOutcomes :
        /\ pc' = outcome
        /\ log' = NullListEvents(outcome)
        /\ status' = IF outcome = "idle" THEN 0 ELSE status
    /\ call' = "hwc_prepare(NULL)"
    /\ requests' = << >>
    /\ UNCHANGED <<ctx, list, handles, mem, li, bi, bj>>

-----------------------------------------------------------------------------
(* hwc_set and bitblitLayer, one step of the calling thread at a time *)

\* the layer whose buffer is composited into: l0 = &list->hwLayers[0]
BaseIndex == 0

\* mutant: a list without non-base layers returns before eglSwapBuffers
AfterEntry_returnsEarly(lst) == IF lst.numHwLayers > 1 THEN "set_loop" ELSE "idle"

\* where hwc_set goes after its entry: the test "numHwLayers > 1"
AfterEntry(lst) == IF lst.numHwLayers > 1 THEN "set_loop" ELSE "set_swap"

\* mutant: the base layer is blitted onto itself as well
BlitsLayer_all(i) == i >= 0

\* mutant: only layers that hwc_prepare marked as overlays are blitted
BlitsLayer_overlayOnly(i) ==
    i > 0 /\ list.hwLayers[i].compositionType = HWC_OVERLAY

\* the test "i > 0" guarding the call of bitblitLayer
BlitsLayer(i) == i > 0

\* the loop's i++, reached when bitblitLayer has returned or was not called
NextIndex(i) == i + 1

\* the tests that end bitblitLayer before any request or copy
NullBase(l0) == l0.handle = 0
NullLayer(l) == l.handle = 0

\* mutant: a blit skipped for a missing handle ends hwc_set's loop
SkipTarget_endsLoop == "set_swap"

\* where the thread continues when bitblitLayer returns for a missing handle:
\* in hwc_set's loop
SkipTarget == "set_loop"

\* the test "context->bb_fd" guarding the accelerator request
UseAccel(c) == c.bb_fd # 0

\* mutant: the request's status is ignored
AccelDone_ignored(st) == FALSE

\* the test "status == 0" that ends bitblitLayer after the request
AccelDone(st) == st = 0

\* mutant: the result of eglSwapBuffers is ignored
SwapStatus_ignored(success) == 0

\* hwc_set's return value after eglSwapBuffers
SwapStatus(success) == IF ~success THEN HWC_EGL_ERROR ELSE 0

\* hwc_set is entered
hwc_set ==
    /\ pc = "idle"
    /\ ctx.set = "hwc_set"
    /\ call' = "hwc_set"
    /\ log' = << >>
    /\ requests' = << >>
    /\ li' = 0
    /\ pc' = AfterEntry(list)
    /\ UNCHANGED <<ctx, status, list, handles, mem, bi, bj>>

\* one iteration of hwc_set's loop, up to the call of bitblitLayer
SetLoop ==
    /\ pc = "set_loop"
    /\ IF li < list.numHwLayers
       THEN /\ log' = log \o <<Ev("dump", li, 0, list.hwLayers[li].compositionType)>>
                         \o (IF BlitsLayer(li)
                             THEN <<Ev("bitblitLayer", li, BaseIndex, 0)>> ELSE << >>)
            /\ pc' = IF BlitsLayer(li) THEN "blit" ELSE "set_loop"
            /\ li' = IF BlitsLayer(li) THEN li ELSE NextIndex(li)
       ELSE /\ pc' = "set_swap"
            /\ UNCHANGED <<li, log>>
    /\ UNCHANGED <<ctx, status, list, handles, mem, bi, bj, call, requests>>

\* bitblitLayer(context, l0, l) from its entry to the start of the software
\* loop: the handle tests and the accelerator request
BlitEntry ==
    /\ pc = "blit"
    /\ LET l0 == list.hwLayers[BaseIndex]
           l == list.hwLayers[li]
       IN  IF NullBase(l0)
           THEN /\ log' = log \o <<Ev("null base layer", li, 0, 0), Ev("return", li, 0, 0)>>
                /\ pc' = SkipTarget
                /\ li' = NextIndex(li)
                /\ UNCHANGED <<bi, bj, requests>>
           ELSE IF NullLayer(l)
           THEN /\ log' = Append(log, Ev("return", li, 0, 0))
                /\ pc' = SkipTarget
                /\ li' = NextIndex(li)
                /\ UNCHANGED <<bi, bj, requests>>
           ELSE IF UseAccel(ctx)
           THEN \E st \in IoctlResults(ctx.bb_fd) :
                /\ requests' = Append(requests,
                      [layer |-> li, status |-> st,
                       params |-> BitblitParams(l0, l, handles[l0.handle],
                                                handles[l.handle])])
                /\ IF AccelDone(st)
                   THEN /\ log' = log \o <<Ev("ioctl", li, 0, st), Ev("return", li, 0, 0)>>
                        /\ pc' = "set_loop"
                        /\ li' = NextIndex(li)
                        /\ UNCHANGED <<bi, bj>>
                   ELSE /\ log' = Append(log, Ev("ioctl", li, 0, st))
                        /\ pc' = "blit_loop"
                        /\ bi' = 0
                        /\ bj' = 0
                        /\ UNCHANGED li
           ELSE /\ pc' = "blit_loop"
                /\ bi' = 0
                /\ bj' = 0
                /\ UNCHANGED <<li, log, requests>>
    /\ UNCHANGED <<ctx, status, list, handles, mem, call>>

\* the software loop of bitblitLayer: one evaluation of a loop test, followed
\* by the loop body when both tests pass
BlitStep ==
    /\ pc = "blit_loop"
    /\ LET l0 == list.hwLayers[BaseIndex]
           l == list.hwLayers[li]
           sh == handles[l0.handle]
           lh == handles[l.handle]
           d == DestIndex(l0, l, sh, bi, bj)
           s == SrcIndex(l, lh, bi, bj)
           diag == BoundsDiagnostic(l0, l, sh, lh, bi, bj)
       IN  IF ~(bi < Columns(l))
           THEN /\ log' = Append(log, Ev("return", li, 0, 0))
                /\ pc' = "set_loop"
                /\ li' = NextIndex(li)
                /\ UNCHANGED <<bi, bj, mem>>
           ELSE IF ~(bj < Rows(l))
           THEN /\ bi' = bi + 1
                /\ bj' = 0
                /\ UNCHANGED <<pc, li, log, mem>>
           ELSE IF diag # "none"
           THEN /\ log' = log \o <<Ev(diag, li,
                                      IF diag = "base ref out of bounds" THEN d ELSE s, 0),
                                   Ev("return", li, 0, 0)>>
                /\ pc' = "set_loop"
                /\ li' = NextIndex(li)
                /\ UNCHANGED <<bi, bj, mem>>
           ELSE \/ \E v \in (IF InBuffer(lh, s) THEN {mem[l.handle][s]} ELSE Garbage) :
                    /\ log' = log \o <<Ev("read", li, s, v), Ev("write", li, d, v)>>
                    /\ mem' \in (IF InBuffer(sh, d)
                                 THEN {[mem EXCEPT ![l0.handle][d] = v]}
                                 ELSE StrayWrite(mem, l.handle, v))
                    /\ bj' = bj + 1
                    /\ UNCHANGED <<pc, li, bi>>
                \* an access outside the buffer may also end the process
                \/ /\ ~InBuffer(lh, s) \/ ~InBuffer(sh, d)
                   /\ log' = Append(log, Ev("fault", li, IF InBuffer(lh, s) THEN d ELSE s, 0))
                   /\ pc' = "crashed"
                   /\ UNCHANGED <<li, bi, bj, mem>>
    /\ UNCHANGED <<ctx, status, list, handles, call, requests>>

\* eglSwapBuffers and the return of hwc_set
SetSwap ==
    /\ pc = "set_swap"
    /\ \E success \in BOOLEAN :
        /\ log' = Append(log, Ev("eglSwapBuffers", 0, 0, IF success THEN 1 ELSE 0))
        /\ status' = SwapStatus(success)
    /\ pc' = "idle"
    /\ UNCHANGED <<ctx, list, handles, mem, li, bi, bj, call, requests>>

-----------------------------------------------------------------------------
(* Specifications *)

\* the whole device, from before hwc_device_open, on lists of every length
Init ==
    /\ pc = "closed"
    /\ ctx = Closed
    /\ status = 0
    /\ \E n \in 0 .. MaxLayers, f \in {0, HWC_GEOMETRY_CHANGED} :
        \E shapes \in NarrowLists(n) :
            /\ list = ListOf(f, shapes)
            /\ handles = HandlesOf(shapes)
            /\ mem = InitMem(HandlesOf(shapes))
    /\ li = 0
    /\ bi = 0
    /\ bj = 0
    /\ call = "none"
    /\ log = << >>
    /\ requests = << >>

Next ==
    \/ hwc_device_open
    \/ hwc_device_close
    \/ ClientSetFlags
    \/ ClientSetType
    \/ hwc_prepare
    \/ hwc_prepare_null
    \/ hwc_set
    \/ SetLoop
    \/ BlitEntry
    \/ BlitStep
    \/ SetSwap

Spec == Init /\ [][Next]_vars

\* hwc_set on an open device, over the full geometry of a two-layer list
InitBlit ==
    /\ pc = "idle"
    /\ \E fd \in OpenResults : ctx = Device(fd)
    /\ status = 0
    /\ \E b \in WideBases, s \in WideSources :
        /\ list = ListOf(HWC_GEOMETRY_CHANGED, <<b, s>>)
        /\ handles = HandlesOf(<<b, s>>)
        /\ mem = InitMem(HandlesOf(<<b, s>>))
    /\ li = 0
    /\ bi = 0
    /\ bj = 0
    /\ call = "hwc_device_open"
    /\ log = << >>
    /\ requests = << >>

NextBlit ==
    \/ hwc_set
    \/ SetLoop
    \/ BlitEntry
    \/ BlitStep
    \/ SetSwap

SpecBlit == InitBlit /\ [][NextBlit]_vars

\* hwc_prepare on an open device, over two-layer lists of every display frame
InitPlan ==
    /\ pc = "idle"
    /\ \E fd \in OpenResults : ctx = Device(fd)
    /\ status = 0
    /\ \E f \in {0, HWC_GEOMETRY_CHANGED} :
        \E b \in PlanShapes(0), s \in PlanShapes(1) :
            /\ list = ListOf(f, <<b, s>>)
            /\ handles = HandlesOf(<<b, s>>)
            /\ mem = InitMem(HandlesOf(<<b, s>>))
    /\ li = 0
    /\ bi = 0
    /\ bj = 0
    /\ call = "hwc_device_open"
    /\ log = << >>
    /\ requests = << >>

NextPlan ==
    \/ ClientSetFlags
    \/ ClientSetType
    \/ hwc_prepare
    \/ hwc_prepare_null

SpecPlan == InitPlan /\ [][NextPlan]_vars

-----------------------------------------------------------------------------
(* Vocabulary of the properties below *)

\* pixel index x lies within a buffer of the declared size: 0 <= x and
\* 4*x < size
WithinSize(x, size) == 0 <= x /\ x < (size + 3) \div 4

\* the positions of the log holding an event of kind op for layer k
EventsOf(op, k) == { p \in 1 .. Len(log) : log[p].op = op /\ log[p].layer = k }

BaseHandle == handles[list.hwLayers[0].handle]
LayerHandle(k) == handles[list.hwLayers[k].handle]

-----------------------------------------------------------------------------
\* C1: in the software path every pixel written to the base buffer at index d
\* satisfies 0 <= d and 4*d < base.size, and every pixel read from the source
\* buffer at index s satisfies 0 <= s and 4*s < source.size.
C1_AccessWithinSize ==
    \A p \in 1 .. Len(log) :
        /\ log[p].op = "write" => WithinSize(log[p].idx, BaseHandle.size)
        /\ log[p].op = "read" => WithinSize(log[p].idx, LayerHandle(log[p].layer).size)

-----------------------------------------------------------------------------
\* C2: when both layers have handles and the accelerator request fails, the
\* software loop runs in the same blit and, for a region that lies inside both
\* buffers (its columns within a row of each buffer, its last pixel within each
\* declared size), the blit ends with
\*   dest[displayFrame.left + base.sourceCrop.left + i
\*        + (j + displayFrame.top + base.sourceCrop.top) * baseStride]
\*     = original src[sourceCrop.left + i + (j + sourceCrop.top) * srcStride]
\* for every i in [0, columns) and j in [0, rows).

\* the blit of layer k has just returned
BlitReturned(k) ==
    /\ log # << >>
    /\ log[Len(log)].op = "return"
    /\ log[Len(log)].layer = k

\* the accelerator request of layer k's blit failed
AccelFailed(k) == \E q \in 1 .. Len(requests) :
    requests[q].layer = k /\ requests[q].status # 0

\* a cols x rows rectangle at column x0, row y0 lies inside a buffer
RectInside(x0, y0, cols, rows, h) ==
    /\ cols >= 1 /\ rows >= 1
    /\ 0 <= x0 /\ x0 + cols <= h.stride
    /\ 0 <= y0
    /\ WithinSize(x0 + cols - 1 + (y0 + rows - 1) * h.stride, h.size)

RegionInsideBoth(k) ==
    LET b == list.hwLayers[0]
        l == list.hwLayers[k]
        cols == l.sourceCrop.right - l.sourceCrop.left
        rows == l.sourceCrop.bottom - l.sourceCrop.top
    IN  /\ b.handle # 0 /\ l.handle # 0
        /\ RectInside(l.displayFrame.left + b.sourceCrop.left,
                      l.displayFrame.top + b.sourceCrop.top, cols, rows, BaseHandle)
        /\ RectInside(l.sourceCrop.left, l.sourceCrop.top, cols, rows, LayerHandle(k))

RegionCopied(k) ==
    LET b == list.hwLayers[0]
        l == list.hwLayers[k]
        cols == l.sourceCrop.right - l.sourceCrop.left
        rows == l.sourceCrop.bottom - l.sourceCrop.top
    IN  \A i \in 0 .. cols - 1, j \in 0 .. rows - 1 :
            mem[b.handle][l.displayFrame.left + b.sourceCrop.left + i
                          + (j + l.displayFrame.top + b.sourceCrop.top) * BaseHandle.stride]
              = InitMem(handles)[l.handle][l.sourceCrop.left + i
                          + (j + l.sourceCrop.top) * LayerHandle(k).stride]

C2_FallbackCopiesRegion ==
    \A k \in 1 .. list.numHwLayers - 1 :
        (BlitReturned(k) /\ AccelFailed(k) /\ RegionInsideBoth(k))
            => /\ EventsOf("write", k) # {}
               /\ RegionCopied(k)

\* a 2 x 2 region at non-zero offsets, copied between buffers of different
\* strides after a failed request
C2_Witness ==
    /\ list.numHwLayers = 2
    /\ BlitReturned(1) /\ AccelFailed(1) /\ RegionInsideBoth(1)
    /\ list.hwLayers[1].sourceCrop.right - list.hwLayers[1].sourceCrop.left = 2
    /\ list.hwLayers[1].sourceCrop.bottom - list.hwLayers[1].sourceCrop.top = 2
    /\ list.hwLayers[1].sourceCrop.top > 0
    /\ list.hwLayers[0].sourceCrop.left > 0
    /\ list.hwLayers[1].displayFrame.top > 0
    /\ BaseHandle.stride # LayerHandle(1).stride
    /\ RegionCopied(1)

-----------------------------------------------------------------------------
\* C3: when the accelerator channel is available and the single request of a
\* blit returns status 0, the blit returns without running the software loop:
\* no read and no write happens in that blit, and the base buffer is left as
\* it was.

\* layer k's blit issued exactly one request, it succeeded, and the software
\* path of that blit read and wrote nothing
AccelOnly(k) ==
    /\ Cardinality({ q \in 1 .. Len(requests) : requests[q].layer = k }) = 1
    /\ EventsOf("read", k) = {}
    /\ EventsOf("write", k) = {}
    /\ \A p \in EventsOf("ioctl", k) :
          p < Len(log) /\ log[p + 1].op = "return" /\ log[p + 1].layer = k

C3_NoCopyAfterSuccess ==
    \A q \in 1 .. Len(requests) :
        requests[q].status = 0 => AccelOnly(requests[q].layer)

\* the step in which a request succeeds returns from the blit and leaves every
\* buffer unchanged
C3_SuccessStep ==
    (Len(requests') = Len(requests) + 1 /\ requests'[Len(requests')].status = 0)
        => (pc = "blit" /\ pc' = "set_loop" /\ mem' = mem)

C3_AccelSuccessSkipsCopy == [](C3_NoCopyAfterSuccess) /\ [][C3_SuccessStep]_vars

\* a successful request for a region the software path would have copied
C3_Witness ==
    /\ \E q \in 1 .. Len(requests) : requests[q].layer = 1 /\ requests[q].status = 0
    /\ ctx.bb_fd > 0
    /\ BlitReturned(1)
    /\ RegionInsideBoth(1)
    /\ ~RegionCopied(1)

-----------------------------------------------------------------------------
\* C4: for every list with more than one layer and the geometry-changed flag
\* set, after hwc_prepare every layer at index > 0 has compositionType
\* HWC_OVERLAY, whatever it was before, and layer 0 keeps its compositionType.
C4_PlanStep ==
    (hwc_prepare /\ list.numHwLayers > 1 /\ list.flags = HWC_GEOMETRY_CHANGED)
        => /\ \A i \in 1 .. list.numHwLayers - 1 :
                list'.hwLayers[i].compositionType = HWC_OVERLAY
           /\ list'.hwLayers[0].compositionType = list.hwLayers[0].compositionType

C4_PlanClaimsOverlays == [][C4_PlanStep]_vars

\* hwc_prepare has just scanned a three-layer list: layer 1 was not an overlay
\* before (its dump shows the old type), layer 2 has no handle, and layer 0
\* arrived as an overlay and still is one
C4_Witness ==
    /\ call = "hwc_prepare"
    /\ list.numHwLayers = 3
    /\ list.flags = HWC_GEOMETRY_CHANGED
    /\ \E p \in EventsOf("dump", 1) : log[p].val = HWC_FRAMEBUFFER
    /\ list.hwLayers[1].compositionType = HWC_OVERLAY
    /\ list.hwLayers[2].compositionType = HWC_OVERLAY
    /\ list.hwLayers[2].handle = 0
    /\ list.hwLayers[0].compositionType = HWC_OVERLAY

-----------------------------------------------------------------------------
\* C5: hwc_prepare on a list whose geometry-changed flag is cleared changes no
\* field of any layer, whatever the list length, and validates no handle and
\* emits no scaling diagnostic; a layer reset to a non-overlay type after an
\* earlier hwc_prepare keeps that type.
C5_PlanStep ==
    (hwc_prepare /\ list.flags = 0)
        => /\ list' = list
           /\ \A p \in 1 .. Len(log') : log'[p].op \notin {"validate", "needs scaling"}

C5_NoRescanWithoutGeometryChange == [][C5_PlanStep]_vars

\* hwc_prepare has just returned with the flag cleared: layer 1 still carries
\* the overlay type, layer 2 was reset and stays reset, and layer 1 has a
\* handle and a display frame larger than its crop
C5_Witness ==
    /\ call = "hwc_prepare"
    /\ list.flags = 0
    /\ list.numHwLayers = 3
    /\ list.hwLayers[1].compositionType = HWC_OVERLAY
    /\ list.hwLayers[2].compositionType = HWC_FRAMEBUFFER
    /\ list.hwLayers[1].handle # 0
    /\ list.hwLayers[1].displayFrame.right - list.hwLayers[1].displayFrame.left
         # list.hwLayers[1].sourceCrop.right - list.hwLayers[1].sourceCrop.left
    /\ log = << >>

-----------------------------------------------------------------------------
\* C6: for every list of length 0 or 1, with the geometry-changed flag set or
\* cleared, hwc_prepare leaves every compositionType unchanged, and hwc_set
\* calls bitblitLayer zero times, issues no accelerator request, writes no
\* buffer and calls eglSwapBuffers exactly once.

SwapEvents == { p \in 1 .. Len(log) : log[p].op = "eglSwapBuffers" }

C6_ExecuteShortList ==
    (call = "hwc_set" /\ list.numHwLayers <= 1)
        => /\ \A p \in 1 .. Len(log) : log[p].op \notin {"bitblitLayer", "read", "write"}
           /\ requests = << >>
           /\ Cardinality(SwapEvents) = (IF pc = "idle" THEN 1 ELSE 0)

C6_ShortListStep ==
    /\ (hwc_prepare /\ list.numHwLayers <= 1)
          => \A i \in DOMAIN list.hwLayers :
               list'.hwLayers[i].compositionType = list.hwLayers[i].compositionType
    /\ (call' = "hwc_set" /\ list.numHwLayers <= 1) => mem' = mem

C6_ShortListsAreOnlyPresented == [](C6_ExecuteShortList) /\ [][C6_ShortListStep]_vars

\* hwc_set has returned on a one-layer list whose layer has a buffer, with
\* the geometry-changed flag set
C6_Witness ==
    /\ call = "hwc_set" /\ pc = "idle"
    /\ list.numHwLayers = 1
    /\ list.flags = HWC_GEOMETRY_CHANGED
    /\ list.hwLayers[0].handle # 0
    /\ Len(log) = 1 /\ log[1].op = "eglSwapBuffers"

-----------------------------------------------------------------------------
\* C7: for every list of length n > 1, one hwc_set call calls bitblitLayer
\* exactly once for each index 1 .. n-1, in ascending order, each time with
\* (layer 0, layer i), never for index 0, each call returning before the next
\* begins; eglSwapBuffers is called exactly once, after the last blit has
\* returned.

IsBlitCall(e) == e.op = "bitblitLayer"
BlitCalls == SelectSeq(log, IsBlitCall)

\* every event of layer k's blit lies between its call and its return, and
\* nothing of another blit or of the present operation lies in between
BlitBracketed(k) ==
    \A c \in EventsOf("bitblitLayer", k) :
        /\ \A p \in 1 .. Len(log) :
              (log[p].layer = k /\ log[p].op \in {"ioctl", "read", "write", "return"})
                  => p > c
        /\ \A p \in c + 1 .. Len(log) :
              (log[p].layer # k \/ log[p].op = "eglSwapBuffers")
                  => \E r \in EventsOf("return", k) : c < r /\ r < p

C7_BlitsInOrderThenPresent ==
    (call = "hwc_set" /\ list.numHwLayers > 1)
        => /\ Len(BlitCalls) <= list.numHwLayers - 1
           /\ \A m \in 1 .. Len(BlitCalls) :
                BlitCalls[m].layer = m /\ BlitCalls[m].idx = 0
           /\ \A k \in 0 .. list.numHwLayers - 1 : BlitBracketed(k)
           /\ \A p \in SwapEvents :
                /\ p = Len(log)
                /\ Len(BlitCalls) = list.numHwLayers - 1
                /\ \A k \in 1 .. list.numHwLayers - 1 : EventsOf("return", k) # {}
           /\ Cardinality(SwapEvents) = (IF pc = "idle" THEN 1 ELSE 0)

\* hwc_set has returned on a three-layer list after copying pixels in both
\* blits
C7_Witness ==
    /\ call = "hwc_set" /\ pc = "idle"
    /\ list.numHwLayers = 3
    /\ EventsOf("write", 1) # {} /\ EventsOf("write", 2) # {}
    /\ Len(BlitCalls) = 2

-----------------------------------------------------------------------------
\* C8: hwc_set returns HWC_EGL_ERROR if and only if eglSwapBuffers reports
\* failure and returns 0 otherwise, however many blits ran and whether any of
\* them was skipped, fell back after a failed request or stopped at a bounds
\* violation.
C8_StatusIsPresentResult ==
    (call = "hwc_set" /\ pc = "idle")
        => /\ log # << >>
           /\ log[Len(log)].op = "eglSwapBuffers"
           /\ (status = HWC_EGL_ERROR) <=> (log[Len(log)].val = 0)
           /\ (log[Len(log)].val # 0) => (status = 0)

\* the present operation failed after a blit that fell back and stopped at a
\* bounds violation and a blit that was skipped for a missing handle
C8_Witness ==
    /\ call = "hwc_set" /\ pc = "idle"
    /\ status = HWC_EGL_ERROR
    /\ list.numHwLayers = 3
    /\ AccelFailed(1)
    /\ EventsOf("layer ref out of bounds", 1) # {}
    /\ list.hwLayers[2].handle = 0
    /\ EventsOf("return", 2) # {}

-----------------------------------------------------------------------------
\* C9: if the base layer or the source layer has no buffer handle, that blit
\* issues no accelerator request and reads and writes no buffer; the cycle
\* continues: the remaining non-base layers are still blitted in order and
\* eglSwapBuffers is still called.

MissingHandle(k) == list.hwLayers[0].handle = 0 \/ list.hwLayers[k].handle = 0

\* when hwc_set has returned, every non-base layer was passed to bitblitLayer
\* and the present operation was called
CycleCompleted ==
    pc = "idle"
        => /\ \A k \in 1 .. list.numHwLayers - 1 : EventsOf("bitblitLayer", k) # {}
           /\ \A k1, k2 \in 1 .. list.numHwLayers - 1 :
                k1 < k2 => \A p1 \in EventsOf("bitblitLayer", k1),
                              p2 \in EventsOf("bitblitLayer", k2) : p1 < p2
           /\ SwapEvents # {}

C9_MissingHandleSkipsBlit ==
    \A k \in 1 .. list.numHwLayers - 1 :
        (call = "hwc_set" /\ MissingHandle(k))
            => /\ \A q \in 1 .. Len(requests) : requests[q].layer # k
               /\ EventsOf("ioctl", k) = {}
               /\ EventsOf("read", k) = {}
               /\ EventsOf("write", k) = {}
               /\ CycleCompleted

\* a blit was skipped for a missing source handle and the blit of the next
\* layer copied pixels before the present operation
C9_Witness ==
    /\ call = "hwc_set" /\ pc = "idle"
    /\ list.numHwLayers = 3
    /\ list.hwLayers[0].handle # 0
    /\ list.hwLayers[1].handle = 0
    /\ EventsOf("return", 1) # {}
    /\ EventsOf("write", 2) # {}
    /\ ctx.bb_fd > 0
    /\ SwapEvents # {}

-----------------------------------------------------------------------------
\* C10: in the software path, at the first pixel whose destination or source
\* byte offset fails the bounds test, the blit returns at once and reads and
\* writes nothing more (the rest of the region stays unfilled); the cycle
\* continues with the next layer and eglSwapBuffers is still called.

\* the bounds test: the 32-bit byte offset 4*x exceeds the declared size
FailsTest(x, size) == (x % (2^30)) > size \div 4

Aborts(k) ==
    EventsOf("base ref out of bounds", k) \cup EventsOf("layer ref out of bounds", k)

\* some pixel of layer k's region fails the bounds test of either buffer
SomePixelFails(k) ==
    LET b == list.hwLayers[0]
        l == list.hwLayers[k]
    IN  \E i \in 0 .. (l.sourceCrop.right - l.sourceCrop.left) - 1,
           j \in 0 .. (l.sourceCrop.bottom - l.sourceCrop.top) - 1 :
           \/ FailsTest(l.displayFrame.left + b.sourceCrop.left + i
                          + (j + l.displayFrame.top + b.sourceCrop.top) * BaseHandle.stride,
                        BaseHandle.size)
           \/ FailsTest(l.sourceCrop.left + i + (j + l.sourceCrop.top) * LayerHandle(k).stride,
                        LayerHandle(k).size)

\* layer k's blit ran the software loop to its return
SoftwareBlitReturned(k) ==
    /\ ~MissingHandle(k)
    /\ EventsOf("return", k) # {}
    /\ \A q \in 1 .. Len(requests) : requests[q].layer = k => requests[q].status # 0

C10_BoundsViolationEndsBlit ==
    \A k \in 1 .. list.numHwLayers - 1 :
        call = "hwc_set"
            => /\ \A p \in Aborts(k) :
                    /\ p < Len(log)
                    /\ log[p + 1].op = "return" /\ log[p + 1].layer = k
                    /\ \A w \in EventsOf("read", k) \cup EventsOf("write", k) : w < p
               /\ \A w \in EventsOf("write", k) : ~FailsTest(log[w].idx, BaseHandle.size)
               /\ \A r \in EventsOf("read", k) : ~FailsTest(log[r].idx, LayerHandle(k).size)
               /\ (SoftwareBlitReturned(k) /\ SomePixelFails(k))
                    => /\ Cardinality(Aborts(k)) = 1
                       /\ Cardinality(EventsOf("write", k))
                            < (list.hwLayers[k].sourceCrop.right - list.hwLayers[k].sourceCrop.left)
                              * (list.hwLayers[k].sourceCrop.bottom - list.hwLayers[k].sourceCrop.top)
               /\ Aborts(k) # {} => CycleCompleted

\* layer 1's blit stopped at its second pixel, layer 2's blit then copied its
\* region, and the present operation was called
C10_Witness ==
    /\ call = "hwc_set" /\ pc = "idle"
    /\ list.numHwLayers = 3
    /\ Aborts(1) # {}
    /\ Cardinality(EventsOf("write", 1)) = 1
    /\ Cardinality(EventsOf("write", 2)) = 2
    /\ SwapEvents # {}

-----------------------------------------------------------------------------
\* C11: if open("/dev/xylonbb") fails during hwc_device_open, hwc_device_open
\* still returns 0, and in every later blit on that device no accelerator
\* request is issued: the blit goes from its handle tests directly to the
\* software loop.

\* the device holds no descriptor of an open accelerator channel
AccelUnavailable == ctx.opened /\ ctx.bb_fd <= 0

\* the positions of the log recording a failed open("/dev/xylonbb")
FailedOpens == { p \in 1 .. Len(log) : log[p].op = "open" /\ log[p].val < 0 }

C11_OpenFailureDisablesFastPath ==
    /\ (call = "hwc_device_open" /\ FailedOpens # {})
          => (status = 0 /\ ctx.opened)
    /\ (call = "hwc_set" /\ AccelUnavailable)
          => /\ requests = << >>
             /\ \A p \in 1 .. Len(log) : log[p].op # "ioctl"

-----------------------------------------------------------------------------
\* C12: across every sequence of hwc_prepare and hwc_set calls, no step of the
\* device changes layer 0's compositionType, the hints, flags, handle,
\* transform, blending, sourceCrop or displayFrame of any layer, the list's
\* flags or its length; the only fields that change are the compositionType
\* fields of layers at index > 0, and no step of hwc_set changes any of them.

LayerFrameFields ==
    {"hints", "flags", "handle", "transform", "blending", "sourceCrop", "displayFrame"}

C12_DeviceStep ==
    call' # "client"
        => /\ list'.flags = list.flags
           /\ list'.numHwLayers = list.numHwLayers
           /\ DOMAIN list'.hwLayers = DOMAIN list.hwLayers
           /\ \A i \in DOMAIN list.hwLayers :
                /\ DOMAIN list'.hwLayers[i] = LayerFrameFields \cup {"compositionType"}
                /\ \A f \in LayerFrameFields :
                      list'.hwLayers[i][f] = list.hwLayers[i][f]
                /\ i = 0 => list'.hwLayers[i].compositionType
                               = list.hwLayers[i].compositionType
           /\ call' = "hwc_set" => list' = list
           /\ handles' = handles

C12_OnlyOverlayTypesChange == [][C12_DeviceStep]_vars

\* hwc_prepare has just claimed layer 1 of a two-layer list (its dump shows
\* the type it had), and layer 0 still has the type it came with
C12_Witness ==
    /\ call = "hwc_prepare"
    /\ list.numHwLayers = 2
    /\ \E p \in EventsOf("dump", 1) : log[p].val = HWC_FRAMEBUFFER
    /\ list.hwLayers[1].compositionType = HWC_OVERLAY
    /\ list.hwLayers[1].handle # 0
    /\ \E p \in EventsOf("dump", 0) :
          log[p].val = list.hwLayers[0].compositionType

-----------------------------------------------------------------------------
\* C13: hwc_device_open returns -EINVAL and produces no device if and only if
\* the requested name differs from HWC_HARDWARE_COMPOSER; with the matching
\* name it returns 0 and produces a device whose prepare, set and close procs
\* are set, whether open("/dev/xylonbb") succeeded or failed.

\* the name argument of the hwc_device_open call that has just returned
OpenedName == log[1].name

C13_OpenRejectsOtherNames ==
    call = "hwc_device_open"
        => /\ log # << >> /\ log[1].op = "hwc_device_open"
           /\ (status = -EINVAL /\ ~ctx.opened) <=> (OpenedName # "composer")
           /\ OpenedName # "composer"
                => (ctx.prepare = "NULL" /\ ctx.set = "NULL" /\ ctx.close = "NULL")
           /\ OpenedName = "composer"
                => /\ status = 0
                   /\ ctx.opened
                   /\ ctx.prepare = "hwc_prepare"
                   /\ ctx.set = "hwc_set"
                   /\ ctx.close = "hwc_device_close"

\* hwc_device_open has returned 0 with the procs set although the accelerator
\* could not be opened
C13_Witness ==
    /\ call = "hwc_device_open"
    /\ OpenedName = "composer"
    /\ FailedOpens # {}
    /\ status = 0
    /\ ctx.set = "hwc_set"

-----------------------------------------------------------------------------
\* C14 (as amended): the software loop visits the pixels of the region with
\* the row index j innermost and the column index i outermost (all rows of
\* column i before any pixel of column i+1), testing the destination offset
\* before the source offset at each pixel; hence when a blit aborts at pixel
\* (i, j), the pixels already written are exactly every row of columns
\* 0 .. i-1 plus rows 0 .. j-1 of column i.

\* the number of writes of layer k's blit that precede log position w
WriteRank(k, w) == Cardinality({ x \in EventsOf("write", k) : x < w })

\* the destination and source index of pixel (i, j) of layer k's region
DestOf(k, i, j) ==
    list.hwLayers[k].displayFrame.left + list.hwLayers[0].sourceCrop.left + i
      + (j + list.hwLayers[k].displayFrame.top + list.hwLayers[0].sourceCrop.top)
          * BaseHandle.stride

SrcOf(k, i, j) ==
    list.hwLayers[k].sourceCrop.left + i
      + (j + list.hwLayers[k].sourceCrop.top) * LayerHandle(k).stride

RegionColumns(k) == list.hwLayers[k].sourceCrop.right - list.hwLayers[k].sourceCrop.left
RegionRows(k) == list.hwLayers[k].sourceCrop.bottom - list.hwLayers[k].sourceCrop.top

\* layer k's blit has just returned from a failed bounds test, which it met
\* at pixel (bi, bj)
AbortedAt(k) ==
    /\ call = "hwc_set"
    /\ BlitReturned(k)
    /\ Len(log) > 1
    /\ log[Len(log) - 1].layer = k
    /\ log[Len(log) - 1].op \in {"base ref out of bounds", "layer ref out of bounds"}

\* the destination test comes first: the abort at (bi, bj) reports the
\* destination when the destination offset fails, the source only when the
\* destination offset passes
DestinationTestedFirst(k) ==
    AbortedAt(k)
        => LET a == log[Len(log) - 1]
           IN  /\ FailsTest(DestOf(k, bi, bj), BaseHandle.size)
                     <=> (a.op = "base ref out of bounds")
               /\ a.op = "base ref out of bounds" => a.idx = DestOf(k, bi, bj)
               /\ a.op = "layer ref out of bounds"
                     => /\ a.idx = SrcOf(k, bi, bj)
                        /\ FailsTest(SrcOf(k, bi, bj), LayerHandle(k).size)

C14_ColumnsOutermost ==
    \A k \in 1 .. list.numHwLayers - 1 :
        /\ \A w \in EventsOf("write", k) :
              log[w].idx = DestOf(k, WriteRank(k, w) \div RegionRows(k),
                                     WriteRank(k, w) % RegionRows(k))
        /\ AbortedAt(k)
              => Cardinality(EventsOf("write", k)) = bi * RegionRows(k) + bj
        /\ DestinationTestedFirst(k)

\* C14 as claimed: the column index i is innermost and the row index j
\* outermost (all columns of row j before any pixel of row j+1), the
\* destination is tested before the source; when a blit aborts at pixel
\* (i, j), the pixels written are every column of rows 0 .. j-1 plus columns
\* 0 .. i-1 of row j.
C14_RowsOutermost ==
    \A k \in 1 .. list.numHwLayers - 1 :
        /\ \A w \in EventsOf("write", k) :
              log[w].idx = DestOf(k, WriteRank(k, w) % RegionColumns(k),
                                     WriteRank(k, w) \div RegionColumns(k))
        /\ AbortedAt(k)
              => Cardinality(EventsOf("write", k)) = bj * RegionColumns(k) + bi
        /\ DestinationTestedFirst(k)

\* a blit of a 2 x 2 region has aborted in its second column, at a pixel
\* whose destination and source offsets both fail, after copying the whole
\* first column
C14_Witness ==
    /\ list.numHwLayers = 2
    /\ AbortedAt(1)
    /\ RegionColumns(1) = 2 /\ RegionRows(1) = 2
    /\ bi = 1
    /\ Cardinality(EventsOf("write", 1)) >= 2
    /\ FailsTest(DestOf(1, bi, bj), BaseHandle.size)
    /\ FailsTest(SrcOf(1, bi, bj), LayerHandle(1).size)

-----------------------------------------------------------------------------
\* C15: when hwc_prepare scans a list (more than one layer, geometry-changed
\* set), "needs scaling" is emitted for a layer if and only if
\* displayFrame.right - displayFrame.left differs from
\* sourceCrop.right - sourceCrop.left or displayFrame.bottom - displayFrame.top
\* differs from sourceCrop.bottom - sourceCrop.top, once per such layer, for
\* every layer index including 0, with or without a handle.

WidthDiffers(l) ==
    (l.displayFrame.right - l.displayFrame.left) # (l.sourceCrop.right - l.sourceCrop.left)

HeightDiffers(l) ==
    (l.displayFrame.bottom - l.displayFrame.top) # (l.sourceCrop.bottom - l.sourceCrop.top)

PlanScanned ==
    call = "hwc_prepare" /\ list.numHwLayers > 1 /\ list.flags = HWC_GEOMETRY_CHANGED

C15_ScalingDiagnostic ==
    PlanScanned
        => \A i \in 0 .. list.numHwLayers - 1 :
              Cardinality(EventsOf("needs scaling", i))
                = (IF WidthDiffers(list.hwLayers[i]) \/ HeightDiffers(list.hwLayers[i])
                   THEN 1 ELSE 0)

\* the scan has reported layer 0, which has no handle and differs in height
\* only, and has not reported layer 1, whose rectangles have equal extents
C15_Witness ==
    /\ PlanScanned
    /\ list.hwLayers[0].handle = 0
    /\ ~WidthDiffers(list.hwLayers[0]) /\ HeightDiffers(list.hwLayers[0])
    /\ EventsOf("needs scaling", 0) # {}
    /\ list.hwLayers[1].handle # 0
    /\ ~WidthDiffers(list.hwLayers[1]) /\ ~HeightDiffers(list.hwLayers[1])
    /\ EventsOf("needs scaling", 1) = {}
    /\ EventsOf("validate", 1) # {}

-----------------------------------------------------------------------------
\* C16: when the accelerator channel is available and both layers have
\* handles, a blit issues exactly one accelerator request, before any software
\* copy and never a second one, with
\*   dst_offset = 4 * (displayFrame.left + base.sourceCrop.left
\*                     + (displayFrame.top + base.sourceCrop.top) * baseStride)
\*   dst_stripe = baseStride
\*   src_offset = 4 * (sourceCrop.left + sourceCrop.top * srcStride)
\*   src_stripe = srcStride
\*   num_columns = sourceCrop.right - sourceCrop.left
\*   num_rows = sourceCrop.bottom - sourceCrop.top
\* and the descriptors of the base and the source handle; the offsets are
\* 32-bit values, 4 * x reduced modulo 2^32 when 4 * x leaves that range.

\* f is the 32-bit value of 4 * x
IsByteOffset(f, x) ==
    IF -(2^29) <= x /\ x < 2^29
    THEN f = 4 * x
    ELSE IF x >= 2^29
    THEN x - 2^30 < 2^29 /\ f = 4 * (x - 2^30)
    ELSE x + 2^30 >= -(2^29) /\ f = 4 * (x + 2^30)

RequestsOf(k) == { q \in 1 .. Len(requests) : requests[q].layer = k }

\* layer k's blit has passed the point of its accelerator request
PastRequest(k) ==
    \/ EventsOf("return", k) # {}
    \/ EventsOf("read", k) # {}
    \/ pc \in {"blit_loop", "crashed"} /\ li = k

C16_OneRequestPerBlit ==
    \A k \in 1 .. list.numHwLayers - 1 :
        (call = "hwc_set" /\ ctx.bb_fd > 0 /\ ~MissingHandle(k))
            => /\ Cardinality(RequestsOf(k)) = (IF PastRequest(k) THEN 1 ELSE 0)
               /\ Cardinality(EventsOf("ioctl", k)) = Cardinality(RequestsOf(k))
               /\ \A p \in EventsOf("ioctl", k) :
                     \A w \in EventsOf("read", k) \cup EventsOf("write", k) : p < w
               /\ \A q \in RequestsOf(k) :
                     LET r == requests[q].params
                         b == list.hwLayers[0]
                         l == list.hwLayers[k]
                     IN  /\ IsByteOffset(r.dst_offset,
                               l.displayFrame.left + b.sourceCrop.left
                                 + (l.displayFrame.top + b.sourceCrop.top) * BaseHandle.stride)
                         /\ r.dst_stripe = BaseHandle.stride
                         /\ IsByteOffset(r.src_offset,
                               l.sourceCrop.left + l.sourceCrop.top * LayerHandle(k).stride)
                         /\ r.src_stripe = LayerHandle(k).stride
                         /\ r.num_columns = l.sourceCrop.right - l.sourceCrop.left
                         /\ r.num_rows = l.sourceCrop.bottom - l.sourceCrop.top
                         /\ r.dst_dma_buf = BaseHandle.fd
                         /\ r.src_dma_buf = LayerHandle(k).fd

\* one request with non-zero offsets and different strides has failed, and the
\* software loop has then copied the region without a second request
C16_Witness ==
    /\ list.numHwLayers = 2
    /\ ctx.bb_fd > 0
    /\ BlitReturned(1) /\ AccelFailed(1)
    /\ Len(requests) = 1
    /\ requests[1].params.dst_offset > 0
    /\ requests[1].params.src_offset > 0
    /\ requests[1].params.dst_stripe # requests[1].params.src_stripe
    /\ list.hwLayers[1].sourceCrop.top > 0
    /\ Cardinality(EventsOf("write", 1)) = 4

-----------------------------------------------------------------------------
\* C17: a software-path blit writes only pixels of the base buffer at indices
\* destIndex(i, j) with i in [0, columns) and j in [0, rows); every other
\* pixel of the base buffer and every pixel of the source buffers keeps its
\* value; a region with columns <= 0 or rows <= 0 writes nothing.

\* every write of layer k's blit goes to a pixel of the base buffer that is
\* the destination of a pixel of the region
WritesInsideRegion(k) ==
    \A w \in EventsOf("write", k) :
        /\ WithinSize(log[w].idx, BaseHandle.size)
        /\ \E i \in 0 .. RegionColumns(k) - 1, j \in 0 .. RegionRows(k) - 1 :
              log[w].idx = DestOf(k, i, j)

\* a step changes no pixel of a source buffer, and a pixel of the base buffer
\* only by the write it records
C17_FrameStep ==
    \A h \in DOMAIN mem :
        \A x \in DOMAIN mem[h] :
            mem'[h][x] # mem[h][x]
                => /\ h = list.hwLayers[0].handle
                   /\ log' # << >>
                   /\ log'[Len(log')].op = "write"
                   /\ log'[Len(log')].idx = x

C17_WritesOnlyRegion ==
    /\ [](\A k \in 1 .. list.numHwLayers - 1 : WritesInsideRegion(k))
    /\ [][C17_FrameStep]_vars

-----------------------------------------------------------------------------
\* C18: the layers hwc_set blits do not depend on compositionType or on
\* whether hwc_prepare ran: in every hwc_set call on a list of more than one
\* layer, every layer at index > 0 is passed to bitblitLayer, also a layer
\* whose compositionType is not HWC_OVERLAY.

\* hwc_set's loop has reached the call for layer k
LoopReached(k) == li > k \/ (li = k /\ pc # "set_loop")

C18_BlitsWhateverTheType ==
    (call = "hwc_set" /\ list.numHwLayers > 1)
        => \A k \in 1 .. list.numHwLayers - 1 :
              /\ Cardinality(EventsOf("bitblitLayer", k))
                    = (IF LoopReached(k) THEN 1 ELSE 0)
              /\ pc = "idle" => LoopReached(k)

\* hwc_set has returned on a list whose geometry-changed flag is cleared:
\* layer 1, not an overlay, was copied by the software loop, and so was
\* layer 2, an overlay
C18_Witness ==
    /\ call = "hwc_set" /\ pc = "idle"
    /\ list.flags = 0
    /\ list.numHwLayers = 3
    /\ list.hwLayers[1].compositionType = HWC_FRAMEBUFFER
    /\ list.hwLayers[2].compositionType = HWC_OVERLAY
    /\ EventsOf("bitblitLayer", 1) # {} /\ EventsOf("write", 1) # {}
    /\ EventsOf("bitblitLayer", 2) # {} /\ EventsOf("write", 2) # {}

-----------------------------------------------------------------------------
\* C19: hwc_prepare never fails: it returns 0 for every input, and given a
\* null list it reads no field of the list, changes nothing and returns 0.

PlanCalled == call \in {"hwc_prepare", "hwc_prepare(NULL)"}

C19_PlanReturned ==
    PlanCalled
        => /\ pc = "idle"
           /\ status = 0
           /\ call = "hwc_prepare(NULL)"
                => \A p \in 1 .. Len(log) : log[p].op \notin {"read list->numHwLayers", "fault"}

C19_NullListStep ==
    call' = "hwc_prepare(NULL)" => (list' = list /\ handles' = handles /\ mem' = mem)

C19_PlanNeverFails == [](C19_PlanReturned) /\ [][C19_NullListStep]_vars

====
